---- MODULE Spec2Model ----
(***************************************************************************)
(* Model of prediction.py: one run of main().  The run pads the input      *)
(* series to a stride-aligned length, slices it into windows, has the      *)
(* (external) model predict one window per input window, merges the        *)
(* predicted windows by overlap averaging, trims the padding, inverts the  *)
(* target normalisation, writes the prediction and optionally validates    *)
(* it against a ground-truth series.                                       *)
(*                                                                         *)
(* Sequences are 1-based here and 0-based in the source: position j of the *)
(* source is element j+1 of the sequence.  Array values are rationals      *)
(* [num, den]; den = 0 stands for the nan numpy produces for 0.0/0.        *)
(* The external predictor is a choice among a small family of functions    *)
(* of (window index, position, input sample).  The values of the three     *)
(* validation metrics are not modelled, only which of them were computed,  *)
(* printed and logged.                                                     *)
(***************************************************************************)
EXTENDS Integers, Sequences, FiniteSets, TLC

\* ---- bounds of the model ----
MaxN == 5
MaxVal == 1
MaxL == 3
MaxStride == 4
MaxStd == 2

\* None for the string-valued and for the integer-valued variables
None == "None"
Unset == -1

VARIABLES
    pc,                          \* next statement of main() to run
    err,                         \* exception that ended the run, or None
    STRIDE,                      \* global STRIDE
    VALID_TARGET_FILENAME,       \* global VALID_TARGET_FILENAME
    data,                        \* column 'w' of the data frame
    data_values,                 \* data['w'].values as loaded
    seq_length,                  \* model.input_shape[1]
    original_data_len,
    target_std,
    prediction_input,            \* windows sliced from data
    prediction_output,           \* windows returned by model.predict
    predictor,                   \* which predictor the loaded model is
    combined_prediction_output,
    overlapping_count,
    i,                           \* index of the merge loop
    valid_target_len,            \* valid_target_values.shape[0]
    metrics_done,                \* metrics computed, printed and put in log
    files,                       \* files written to output_dir
    prediction_csv               \* column 'prediction' written to prediction.csv

vars == <<pc, err, STRIDE, VALID_TARGET_FILENAME, data, data_values, seq_length,
          original_data_len, target_std, prediction_input, prediction_output,
          predictor, combined_prediction_output, overlapping_count, i,
          valid_target_len, metrics_done, files, prediction_csv>>

\* ---- helpers ----

Min(a, b) == IF a < b THEN a ELSE b

\* a float array element with value n
Rat(n) == [num |-> n, den |-> 1]

\* numpy.zeros(n)
Zeros(n) == [k \in 1..n |-> 0]

\* Python's range(start, stop, step) for step > 0, as the list of its values
RECURSIVE Range(_, _, _)
Range(start, stop, step) ==
    IF start < stop THEN <<start>> \o Range(start + step, stop, step) ELSE <<>>

\* Python's seq[a:b] for 0 <= a, 0 <= b (the slice is clipped to the length)
Slice(seq, a, b) == SubSeq(seq, a + 1, Min(b, Len(seq)))

\* number of zero samples appended by the padding step
PadLenAlways(tmp, stride) == stride - tmp
PadLen(tmp, stride) == IF tmp # 0 THEN stride - tmp ELSE 0

\* start offsets of the windows of the slicing loop
WindowOffsets(len, L, S) == Range(0, len - L + 1, S)

\* (start_index, end_index) of window w in the merge loop
MergeRangeShifted(w, S, L) == <<w * S + 1, w * S + L + 1>>
MergeRange(w, S, L) == <<w * S, w * S + L>>

\* overlapping_count[start:end] += 1
CountAddHalfOpenShort(cnt, s, e) ==
    [k \in 1..Len(cnt) |-> IF s + 1 <= k /\ k <= e - 1 THEN cnt[k] + 1 ELSE cnt[k]]
CountAdd(cnt, s, e) ==
    [k \in 1..Len(cnt) |-> IF s + 1 <= k /\ k <= e THEN cnt[k] + 1 ELSE cnt[k]]

\* combined_prediction_output[start:end] += pred.flatten()
ValueAdd(acc, s, e, pred) ==
    [k \in 1..Len(acc) |->
        IF s + 1 <= k /\ k <= e
        THEN [num |-> acc[k].num + pred[k - s], den |-> acc[k].den]
        ELSE acc[k]]

\* combined_prediction_output /= overlapping_count
DivideNone(acc, cnt) == acc
Divide(acc, cnt) ==
    [k \in 1..Len(acc) |-> [num |-> acc[k].num, den |-> acc[k].den * cnt[k]]]

\* combined_prediction_output[:original_data_len]
TrimNone(acc, n) == acc
Trim(acc, n) == Slice(acc, 0, n)

\* DivideBy(target_std).inverse
Inverse(acc, std) == [k \in 1..Len(acc) |-> [num |-> acc[k].num * std, den |-> acc[k].den]]

\* the assertion on the ground-truth length
LengthsAgreeAlways(vlen, plen) == TRUE
LengthsAgree(vlen, plen) == vlen = plen

\* files written by the output step
PredictionFilesNone == {}
PredictionFiles == {"prediction.csv", "prediction.png"}

\* the metrics list
metrics == <<"mean_squared_error", "mean_absolute_error", "acc">>

\* the predictors the loaded model may be
Predictors == {"identity", "window_index", "shifted"}

\* value predicted for position j of window w whose input sample is x
PredValue(kind, w, j, x) ==
    CASE kind = "identity" -> x
      [] kind = "window_index" -> w + 1
      [] kind = "shifted" -> x + w

\* ---- the run ----

Init ==
    /\ pc = "parse_args"
    /\ err = None
    /\ STRIDE = Unset
    /\ VALID_TARGET_FILENAME = None
    /\ data = <<>>
    /\ data_values = <<>>
    /\ seq_length = Unset
    /\ original_data_len = Unset
    /\ target_std = Unset
    /\ prediction_input = <<>>
    /\ prediction_output = <<>>
    /\ predictor = None
    /\ combined_prediction_output = <<>>
    /\ overlapping_count = <<>>
    /\ i = 0
    /\ valid_target_len = Unset
    /\ metrics_done = <<>>
    /\ files = {}
    /\ prediction_csv = <<>>

\* parse_args(): --stride is an optional int, --valid-target-filename optional.
\* Strides below 0 are not enumerated.
ParseArgs ==
    /\ pc = "parse_args"
    /\ \E s \in {Unset} \cup (0..MaxStride) : STRIDE' = s
    /\ \E v \in {None, "valid.csv"} : VALID_TARGET_FILENAME' = v
    /\ pc' = "load_data"
    /\ UNCHANGED <<err, data, data_values, seq_length, original_data_len, target_std,
                   prediction_input, prediction_output, predictor,
                   combined_prediction_output, overlapping_count, i,
                   valid_target_len, metrics_done, files, prediction_csv>>

\* load data
LoadData ==
    /\ pc = "load_data"
    /\ \E n \in 1..MaxN : \E d \in [1..n -> 0..MaxVal] :
          /\ data' = d
          /\ data_values' = d
    /\ pc' = "load_model"
    /\ UNCHANGED <<err, STRIDE, VALID_TARGET_FILENAME, seq_length, original_data_len,
                   target_std, prediction_input, prediction_output, predictor,
                   combined_prediction_output, overlapping_count, i,
                   valid_target_len, metrics_done, files, prediction_csv>>

\* load the model, determine sequence length, default STRIDE
LoadModel ==
    /\ pc = "load_model"
    /\ \E l \in 1..MaxL : \E p \in Predictors :
          /\ seq_length' = l
          /\ predictor' = p
          /\ STRIDE' = IF STRIDE = Unset THEN l ELSE STRIDE
    /\ pc' = "pad"
    /\ UNCHANGED <<err, VALID_TARGET_FILENAME, data, data_values, original_data_len,
                   target_std, prediction_input, prediction_output,
                   combined_prediction_output, overlapping_count, i,
                   valid_target_len, metrics_done, files, prediction_csv>>

\* pad the input if its length minus sequence length isn't a multiple of STRIDE
Pad ==
    /\ pc = "pad"
    /\ original_data_len' = Len(data)
    /\ IF STRIDE = 0
       THEN /\ pc' = "aborted"
            /\ err' = "ZeroDivisionError"
            /\ data' = data
       ELSE LET tmp == (Len(data) - seq_length) % STRIDE
            IN  /\ data' = data \o Zeros(PadLen(tmp, STRIDE))
                /\ pc' = "load_proc_params"
                /\ err' = err
    /\ UNCHANGED <<STRIDE, VALID_TARGET_FILENAME, data_values, seq_length, target_std,
                   prediction_input, prediction_output, predictor,
                   combined_prediction_output, overlapping_count, i,
                   valid_target_len, metrics_done, files, prediction_csv>>

\* load processing parameters
LoadProcParams ==
    /\ pc = "load_proc_params"
    /\ \E t \in 1..MaxStd : target_std' = t
    /\ pc' = "slice"
    /\ UNCHANGED <<err, STRIDE, VALID_TARGET_FILENAME, data, data_values, seq_length,
                   original_data_len, prediction_input, prediction_output, predictor,
                   combined_prediction_output, overlapping_count, i,
                   valid_target_len, metrics_done, files, prediction_csv>>

\* the slicing loop
SliceWindows ==
    /\ pc = "slice"
    /\ LET offs == WindowOffsets(Len(data), seq_length, STRIDE)
       IN  prediction_input' =
               [k \in 1..Len(offs) |-> Slice(data, offs[k], offs[k] + seq_length)]
    /\ pc' = "predict"
    /\ UNCHANGED <<err, STRIDE, VALID_TARGET_FILENAME, data, data_values, seq_length,
                   original_data_len, target_std, prediction_output, predictor,
                   combined_prediction_output, overlapping_count, i,
                   valid_target_len, metrics_done, files, prediction_csv>>

\* normalise the batch and predict it; an empty batch is a one-dimensional
\* array, which the per-window centering (mean over axis 1) rejects
Predict ==
    /\ pc = "predict"
    /\ IF prediction_input = <<>>
       THEN /\ pc' = "aborted"
            /\ err' = "IndexError"
            /\ prediction_output' = prediction_output
       ELSE /\ prediction_output' =
                  [k \in 1..Len(prediction_input) |->
                      [j \in 1..Len(prediction_input[k]) |->
                          PredValue(predictor, k - 1, j - 1, prediction_input[k][j])]]
            /\ pc' = "merge_init"
            /\ err' = err
    /\ UNCHANGED <<STRIDE, VALID_TARGET_FILENAME, data, data_values, seq_length,
                   original_data_len, target_std, prediction_input, predictor,
                   combined_prediction_output, overlapping_count, i,
                   valid_target_len, metrics_done, files, prediction_csv>>

\* allocate the accumulator and the overlap-count vector
MergeInit ==
    /\ pc = "merge_init"
    /\ combined_prediction_output' = [k \in 1..Len(data) |-> Rat(0)]
    /\ overlapping_count' = Zeros(Len(data))
    /\ i' = 0
    /\ pc' = "merge_loop"
    /\ UNCHANGED <<err, STRIDE, VALID_TARGET_FILENAME, data, data_values, seq_length,
                   original_data_len, target_std, prediction_input, prediction_output,
                   predictor, valid_target_len, metrics_done, files, prediction_csv>>

\* one iteration of the merge loop; adding a window to a slice clipped by the
\* end of the array is a shape mismatch
MergeStep ==
    /\ pc = "merge_loop"
    /\ i < Len(prediction_output)
    /\ LET r == MergeRange(i, STRIDE, seq_length)
           pred == prediction_output[i + 1]
       IN  IF r[2] > Len(combined_prediction_output)
           THEN /\ pc' = "aborted"
                /\ err' = "ValueError"
                /\ UNCHANGED <<combined_prediction_output, overlapping_count, i>>
           ELSE /\ combined_prediction_output' =
                      ValueAdd(combined_prediction_output, r[1], r[2], pred)
                /\ overlapping_count' = CountAdd(overlapping_count, r[1], r[2])
                /\ i' = i + 1
                /\ UNCHANGED <<pc, err>>
    /\ UNCHANGED <<STRIDE, VALID_TARGET_FILENAME, data, data_values, seq_length,
                   original_data_len, target_std, prediction_input, prediction_output,
                   predictor, valid_target_len, metrics_done, files, prediction_csv>>

\* divide the accumulator by the overlap counts
MergeDivide ==
    /\ pc = "merge_loop"
    /\ i = Len(prediction_output)
    /\ combined_prediction_output' = Divide(combined_prediction_output, overlapping_count)
    /\ pc' = "trim"
    /\ UNCHANGED <<err, STRIDE, VALID_TARGET_FILENAME, data, data_values, seq_length,
                   original_data_len, target_std, prediction_input, prediction_output,
                   predictor, overlapping_count, i, valid_target_len, metrics_done,
                   files, prediction_csv>>

\* cut the lengths down to original lengths before padding
TrimPadding ==
    /\ pc = "trim"
    /\ data' = Slice(data, 0, original_data_len)
    /\ combined_prediction_output' = Trim(combined_prediction_output, original_data_len)
    /\ pc' = "inverse"
    /\ UNCHANGED <<err, STRIDE, VALID_TARGET_FILENAME, data_values, seq_length,
                   original_data_len, target_std, prediction_input, prediction_output,
                   predictor, overlapping_count, i, valid_target_len, metrics_done,
                   files, prediction_csv>>

\* apply inverse processing to prediction
InverseProcessing ==
    /\ pc = "inverse"
    /\ combined_prediction_output' = Inverse(combined_prediction_output, target_std)
    /\ pc' = "output"
    /\ UNCHANGED <<err, STRIDE, VALID_TARGET_FILENAME, data, data_values, seq_length,
                   original_data_len, target_std, prediction_input, prediction_output,
                   predictor, overlapping_count, i, valid_target_len, metrics_done,
                   files, prediction_csv>>

\* write prediction.csv and prediction.png
Output ==
    /\ pc = "output"
    /\ prediction_csv' = combined_prediction_output
    /\ files' = files \cup PredictionFiles
    /\ pc' = IF VALID_TARGET_FILENAME # None THEN "load_valid" ELSE "done"
    /\ UNCHANGED <<err, STRIDE, VALID_TARGET_FILENAME, data, data_values, seq_length,
                   original_data_len, target_std, prediction_input, prediction_output,
                   predictor, combined_prediction_output, overlapping_count, i,
                   valid_target_len, metrics_done>>

\* load the validation target
LoadValid ==
    /\ pc = "load_valid"
    /\ \E n \in 1..(MaxN + 1) : valid_target_len' = n
    /\ pc' = "assert"
    /\ UNCHANGED <<err, STRIDE, VALID_TARGET_FILENAME, data, data_values, seq_length,
                   original_data_len, target_std, prediction_input, prediction_output,
                   predictor, combined_prediction_output, overlapping_count, i,
                   metrics_done, files, prediction_csv>>

\* assert(valid_target_values.shape[0] == combined_prediction_output.shape[0])
AssertLengths ==
    /\ pc = "assert"
    /\ IF LengthsAgree(valid_target_len, Len(combined_prediction_output))
       THEN /\ pc' = "metrics"
            /\ err' = err
       ELSE /\ pc' = "aborted"
            /\ err' = "AssertionError"
    /\ UNCHANGED <<STRIDE, VALID_TARGET_FILENAME, data, data_values, seq_length,
                   original_data_len, target_std, prediction_input, prediction_output,
                   predictor, combined_prediction_output, overlapping_count, i,
                   valid_target_len, metrics_done, files, prediction_csv>>

\* one iteration of the metrics loop: compute, put in log, print
MetricStep ==
    /\ pc = "metrics"
    /\ Len(metrics_done) < Len(metrics)
    /\ metrics_done' = Append(metrics_done, metrics[Len(metrics_done) + 1])
    /\ UNCHANGED <<pc, err, STRIDE, VALID_TARGET_FILENAME, data, data_values, seq_length,
                   original_data_len, target_std, prediction_input, prediction_output,
                   predictor, combined_prediction_output, overlapping_count, i,
                   valid_target_len, files, prediction_csv>>

\* write log.csv
WriteLog ==
    /\ pc = "metrics"
    /\ Len(metrics_done) = Len(metrics)
    /\ files' = files \cup {"log.csv"}
    /\ pc' = "validation_png"
    /\ UNCHANGED <<err, STRIDE, VALID_TARGET_FILENAME, data, data_values, seq_length,
                   original_data_len, target_std, prediction_input, prediction_output,
                   predictor, combined_prediction_output, overlapping_count, i,
                   valid_target_len, metrics_done, prediction_csv>>

\* write validation.png
ValidationPlot ==
    /\ pc = "validation_png"
    /\ files' = files \cup {"validation.png"}
    /\ pc' = "done"
    /\ UNCHANGED <<err, STRIDE, VALID_TARGET_FILENAME, data, data_values, seq_length,
                   original_data_len, target_std, prediction_input, prediction_output,
                   predictor, combined_prediction_output, overlapping_count, i,
                   valid_target_len, metrics_done, prediction_csv>>

Next ==
    \/ ParseArgs
    \/ LoadData
    \/ LoadModel
    \/ Pad
    \/ LoadProcParams
    \/ SliceWindows
    \/ Predict
    \/ MergeInit
    \/ MergeStep
    \/ MergeDivide
    \/ TrimPadding
    \/ InverseProcessing
    \/ Output
    \/ LoadValid
    \/ AssertLengths
    \/ MetricStep
    \/ WriteLog
    \/ ValidationPlot

Spec == Init /\ [][Next]_vars

\* ---- properties ----

\* sum of a sequence of integers
RECURSIVE SumSeq(_)
SumSeq(s) == IF s = <<>> THEN 0 ELSE Head(s) + SumSeq(Tail(s))

\* windows (1-based) among the first m that cover the 1-based position j
Covering(j, m) ==
    {k \in 1..m : (k - 1) * STRIDE <= j - 1 /\ j - 1 < (k - 1) * STRIDE + seq_length}

\* sum of the values the predicted windows in ws give for the 1-based position j
RECURSIVE PredSum(_, _)
PredSum(ws, j) ==
    IF ws = {} THEN 0
    ELSE LET k == CHOOSE w \in ws : TRUE
         IN  prediction_output[k][j - (k - 1) * STRIDE] + PredSum(ws \ {k}, j)

\* the series is at least one window long and the stride is in [1, L]
InRange ==
    /\ original_data_len # Unset
    /\ original_data_len >= seq_length
    /\ 1 <= STRIDE
    /\ STRIDE <= seq_length

\* the data frame still carries its padding
Padded == pc \in {"load_proc_params", "slice", "predict", "merge_init", "merge_loop", "trim"}

\* C1: round trip. With N >= L, 1 <= S <= L and a predictor that returns the
\* windows unchanged, the merged and trimmed series has length N and its value
\* at every position equals the original value at that position.
RoundTrip ==
    (pc = "inverse" /\ predictor = "identity" /\ InRange) =>
        /\ Len(combined_prediction_output) = original_data_len
        /\ \A j \in 1..original_data_len :
              /\ combined_prediction_output[j].den # 0
              /\ combined_prediction_output[j].num =
                     data_values[j] * combined_prediction_output[j].den

RoundTripWitness ==
    /\ pc = "inverse" /\ predictor = "identity" /\ InRange
    /\ STRIDE < seq_length
    /\ Len(overlapping_count) > original_data_len
    /\ \E j \in 1..original_data_len : overlapping_count[j] >= 2 /\ data_values[j] # 0
    /\ \E j, k \in 1..original_data_len : data_values[j] # data_values[k]

\* C2: padding. With N >= L and 1 <= S <= L the padding step appends exactly
\* P = (S - ((N - L) mod S)) mod S zeros at the tail, 0 <= P < S, P = 0 when
\* (N - L) mod S = 0, and (padded_len - L) mod S = 0.
PaddingLength ==
    (Padded /\ InRange) =>
        LET N == original_data_len
            P == Len(data) - N
        IN  /\ P = (STRIDE - ((N - seq_length) % STRIDE)) % STRIDE
            /\ 0 <= P /\ P < STRIDE
            /\ ((N - seq_length) % STRIDE = 0 => P = 0)
            /\ (Len(data) - seq_length) % STRIDE = 0
            /\ SubSeq(data, 1, N) = data_values
            /\ \A j \in (N + 1)..Len(data) : data[j] = 0

PaddingLengthWitness ==
    /\ pc = "load_proc_params" /\ InRange
    /\ Len(data) = original_data_len + 2

PaddingAlignedWitness ==
    /\ pc = "load_proc_params" /\ InRange
    /\ STRIDE >= 2
    /\ Len(data) = original_data_len

\* C3: windows. With N >= L and 1 <= S <= L the slicing loop produces
\* M = (padded_len - L) / S + 1 windows, window w is the padded range
\* [w*S, w*S+L), the last window ends at padded_len, and after the merge loop
\* has taken the first i predicted windows the accumulator and the overlap
\* counts hold exactly the contribution of those windows at those ranges.
WindowsAligned ==
    (pc \in {"predict", "merge_init", "merge_loop"} /\ InRange) =>
        LET M == Len(prediction_input)
        IN  /\ M = (Len(data) - seq_length) \div STRIDE + 1
            /\ \A k \in 1..M :
                  prediction_input[k] =
                      SubSeq(data, (k - 1) * STRIDE + 1, (k - 1) * STRIDE + seq_length)
            /\ (M - 1) * STRIDE + seq_length = Len(data)
            /\ pc = "merge_loop" =>
                  /\ Len(prediction_output) = M
                  /\ Len(overlapping_count) = Len(data)
                  /\ \A j \in 1..Len(data) :
                        /\ overlapping_count[j] = Cardinality(Covering(j, i))
                        /\ combined_prediction_output[j].num = PredSum(Covering(j, i), j)

WindowsAlignedWitness ==
    /\ pc = "merge_loop" /\ InRange
    /\ i >= 2
    /\ 1 < STRIDE
    /\ STRIDE < seq_length
    /\ Len(data) > original_data_len

\* C4: overlap counts. With N >= L and 1 <= S <= L, once all M predicted
\* windows are accumulated the overlap count is >= 1 at every index of
\* [0, padded_len) and the counts sum to M*L.
OverlapCounts ==
    (((pc = "merge_loop" /\ i = Len(prediction_output)) \/ pc = "trim") /\ InRange) =>
        /\ Len(overlapping_count) = Len(data)
        /\ \A j \in 1..Len(data) : overlapping_count[j] >= 1
        /\ SumSeq(overlapping_count) = Len(prediction_output) * seq_length

OverlapCountsWitness ==
    /\ pc = "trim" /\ InRange
    /\ Len(prediction_output) >= 2
    /\ \E j \in 1..Len(data) : overlapping_count[j] >= 2
    /\ \E j \in 1..Len(data) : overlapping_count[j] = 1

\* C5: merge. For any predicted batch the merged series has length N, its
\* value at each position is the unweighted mean of the values the covering
\* windows predict for that position (a position no window covers is 0/0),
\* and no position of the padded tail is in the output.
MergedIsMean ==
    /\ pc \in {"inverse", "output", "load_valid", "assert", "metrics",
               "validation_png", "done"} =>
           Len(combined_prediction_output) = original_data_len
    /\ pc = "inverse" =>
           \A j \in 1..original_data_len :
               LET cov == Covering(j, Len(prediction_output))
                   v == combined_prediction_output[j]
               IN  /\ (v.den = 0) = (cov = {})
                   /\ v.num * Cardinality(cov) = PredSum(cov, j) * v.den

MergedIsMeanWitness ==
    /\ pc = "inverse"
    /\ predictor = "window_index"
    /\ Len(overlapping_count) > original_data_len
    /\ \E j \in 1..original_data_len :
          /\ combined_prediction_output[j].den = 2
          /\ combined_prediction_output[j].num = 3

\* C6: a series shorter than one window fails at the windowing step: no
\* prediction is merged and no output is reported.
ShortSeriesFails ==
    (original_data_len # Unset /\ original_data_len < seq_length) =>
        /\ overlapping_count = <<>>
        /\ files = {}

\* C7: a stride outside [1, L] aborts the run before any window is sliced or
\* merged, so no reconstructed series is reported with such a stride.
BadStrideFails ==
    (seq_length # Unset /\ (STRIDE < 1 \/ STRIDE > seq_length)) =>
        prediction_csv = <<>>

\* C8: when validation is requested and the ground-truth length differs from
\* the reconstructed length, the run fails at the length check and no metric
\* is computed, printed or logged.
LengthMismatchFails ==
    (VALID_TARGET_FILENAME # None /\ valid_target_len # Unset
        /\ valid_target_len # Len(combined_prediction_output)) =>
        /\ pc \in {"assert", "aborted"}
        /\ pc = "aborted" => err = "AssertionError"
        /\ metrics_done = <<>>
        /\ "log.csv" \notin files
        /\ "validation.png" \notin files

LengthMismatchWitness ==
    /\ pc = "aborted"
    /\ err = "AssertionError"
    /\ valid_target_len = Len(combined_prediction_output) + 1

\* C9: a position whose overlap count is 0 after accumulation aborts the run
\* instead of being divided by that count.
ZeroCountAborts ==
    pc = "trim" => \A j \in 1..Len(overlapping_count) : overlapping_count[j] # 0

\* C10: the prediction is written before the validation series is loaded and
\* before the length check; when the length check fails the prediction has
\* been emitted and no metric or log has.
OutputBeforeValidation ==
    /\ (pc \in {"load_valid", "assert", "metrics", "validation_png"}
           \/ valid_target_len # Unset) =>
           /\ {"prediction.csv", "prediction.png"} \subseteq files
           /\ prediction_csv = combined_prediction_output
    /\ err = "AssertionError" =>
           /\ {"prediction.csv", "prediction.png"} \subseteq files
           /\ prediction_csv = combined_prediction_output
           /\ metrics_done = <<>>
           /\ files \cap {"log.csv", "validation.png"} = {}

OutputBeforeValidationWitness ==
    /\ err = "AssertionError"
    /\ files = {"prediction.csv", "prediction.png"}
    /\ prediction_csv # <<>>
    /\ valid_target_len < Len(prediction_csv)

====
